---- MODULE Spec2Model ----
(***************************************************************************)
(* Model of pkg/models/table_record/table_record.go: the active-record     *)
(* lifecycle (Save / LoadByID / Delete / All / ExecQuery) of one entity    *)
(* over one table of an SQL store reached through a connector.             *)
(*                                                                         *)
(* The entity has the mapped columns id (primary key) and name.            *)
(* The store is a table of rows keyed by an auto-increment primary key.    *)
(* Every connector call (Exec, LastInsertId, Prepare, Query, row scan,     *)
(* RowsAffected) may fail; other clients of the store may write rows at    *)
(* any moment, between the two statements of Save included.                *)
(***************************************************************************)
EXTENDS Integers, Sequences, FiniteSets, TLC

\* ------------------------------------------------------------- bounds
\* Primary keys the store can hand out: 1..MaxKey (0 is Go's zero value).
MaxKey == 2
\* Field values: 0 (the zero value / NULL) .. NVals.
NVals == 1
\* Predicates that can be staged on the Query Builder before ExecQuery.
MaxClauses == 1

Keys == 1 .. MaxKey
Vals == 0 .. NVals

\* ---------------------------------------------------------- constants
Conn == "conn"
NoConn == "nil"
ErrNil == "nil"
ErrReadOnly == "Read-only model"

VARIABLES
    table,      \* the stored rows: a function  key -> [name]
    nextId,     \* the store's auto-increment counter
    u,          \* the entity: mapped fields and its embedded TableRecord
    pc,         \* where the caller is: "idle", or inside save() / update()
                \* between the write statement and the reload
    reloadId,   \* the id save()/update() is about to pass to LoadByID
    inserted,   \* history: a row of the entity is known to have been
                \* inserted (its INSERT ran, or it was loaded from a row)
    last,       \* history: the call (or step) that acted last
    prev        \* history: the call that returned right before `last`

vars == <<table, nextId, u, pc, reloadId, inserted, last, prev>>

\* ------------------------------------------------------- field mapper
\* The ordered mapped columns, primary key first.
GetFieldMapper == <<"id", "name">>

GetPrimaryKeyName == "id"

GetPrimaryKeyValue(e) == e.id

\* The mapped columns without the primary key, in mapper order.
FieldsNoPrimary == SelectSeq(GetFieldMapper, LAMBDA c : c # GetPrimaryKeyName)

\* The values of the non-key fields, in mapper order.
getFieldsValueNoPrimary(e) == [i \in 1 .. Len(FieldsNoPrimary) |-> e[FieldsNoPrimary[i]]]

\* ------------------------------------------------------ query builder
genSaveQuery == [kind |-> "INSERT", cols |-> FieldsNoPrimary]

genUpdateQuery == [kind |-> "UPDATE", cols |-> FieldsNoPrimary]

genDeleteQuery == [kind |-> "DELETE", cols |-> <<>>]

\* A statement as the connector saw it: its kind, the primary key it was
\* bound to (0 when it has none) and whether the connector ran it.
Stmt(kind, key, ok) == [kind |-> kind, key |-> key, ok |-> ok]

\* ------------------------------------------------------------ storage
\* The row a write statement stores: column i takes parameter i.
BindRow(cols, params) ==
    [c \in {cols[i] : i \in 1 .. Len(cols)} |->
        params[CHOOSE i \in 1 .. Len(cols) : cols[i] = c]]

\* A stored row as a result row, with its key as the id column.
ResultRow(tbl, k) == [id |-> k, name |-> tbl[k].name]

\* tbl with key k bound to row r (inserted or replaced).
Put(tbl, k, r) == [x \in DOMAIN tbl \cup {k} |-> IF x = k THEN r ELSE tbl[x]]

\* tbl without key k.
Remove(tbl, k) == [x \in DOMAIN tbl \ {k} |-> tbl[x]]

\* ------------------------------------------------------------ entity
\* NewTableRecord(isNew, isReadOnly) inside a zero-valued entity: no
\* connector yet, empty builder.
NewTableRecord(isNew, isReadOnly) ==
    [id |-> 0, name |-> 0,
     isNew |-> isNew, isReadOnly |-> isReadOnly, db |-> NoConn,
     where |-> <<>>, params |-> <<>>]

\* SetIsNew writing its argument into both flags of the record.
SetIsNewBothFlags(e, new) == [e EXCEPT !.isNew = new, !.isReadOnly = new]

SetIsNew(e, new) == [e EXCEPT !.isNew = new]

SetSQLConnection(e, db) == [e EXCEPT !.db = db]

\* The mapped fields of an entity.
Fields(e) == [id |-> e.id, name |-> e.name]

\* ------------------------------------------------------------ history
\* `last` describes the call (or step) that acted last: its name, the
\* error it returned, the error the connector raised inside it, the
\* statements it sent, the id it was given (LoadByID), whether its SELECT
\* returned a row, the row count (rows affected for Delete, entities
\* appended for All and ExecQuery)
\* and the collection it returned, whether another client's statement was
\* interleaved, the prepared statements it opened and closed, and (for
\* Save) the mapped fields and isNew of the entity when it was called.
NoPre == [id |-> 0, name |-> 0, isNew |-> FALSE]

Pre(e) == [id |-> e.id, name |-> e.name, isNew |-> e.isNew]

Blank(op) ==
    [op |-> op, err |-> ErrNil, raised |-> ErrNil, pre |-> NoPre,
     stmts |-> <<>>, arg |-> 0, found |-> FALSE, n |-> 0, result |-> <<>>,
     other |-> FALSE, opened |-> 0, closed |-> 0]

\* `prev` remembers what the call right before the one in `last` did,
\* with no step of anybody in between, when it was a Save that inserted
\* the entity undisturbed (with the non-key value the entity had when
\* Save was called), a Delete that removed a row (with the row's key),
\* or the caller's assignment of a field.
NoPrev == [op |-> "none", key |-> 0, name |-> 0]

Trim(l) ==
    IF l.op = "Save" /\ l.err = ErrNil /\ l.pre.isNew /\ ~l.other
    THEN [op |-> "Save", key |-> 0, name |-> l.pre.name]
    ELSE IF l.op = "Delete" /\ l.n > 0
    THEN [op |-> "Delete", key |-> l.pre.id, name |-> 0]
    ELSE IF l.op = "SetField"
    THEN [op |-> "SetField", key |-> 0, name |-> 0]
    ELSE NoPrev

\* -------------------------------------------------------- LoadFromRow
\* r.StructScan(tri) binding the first n columns of result row r, in
\* column order: all of them when it succeeds, a prefix when it fails.
StructScan(e, r, n) ==
    [f \in DOMAIN e |->
        IF \E i \in 1 .. n : GetFieldMapper[i] = f THEN r[f] ELSE e[f]]

\* A LoadFromRow that binds the row and forgets SetIsNew(false).
LoadFromRowKeepsIsNew(e, r) ==
    {[e |-> StructScan(e, r, Len(GetFieldMapper)), err |-> ErrNil]}
    \cup {[e |-> StructScan(e, r, n), err |-> "ScanErr"] :
            n \in 0 .. Len(GetFieldMapper) - 1}

\* LoadFromRow(r, tri): the outcomes [e, err].
LoadFromRow(e, r) ==
    {[e |-> SetSQLConnection(SetIsNew(StructScan(e, r, Len(GetFieldMapper)), FALSE), e.db),
      err |-> ErrNil]}
    \cup {[e |-> StructScan(e, r, n), err |-> "ScanErr"] :
            n \in 0 .. Len(GetFieldMapper) - 1}

\* ----------------------------------------------------------- LoadByID
\* LoadByID reporting a SELECT that returns no row as an error.
LoadByIDNoRowFails(e, id, tbl) ==
    {[e |-> e, err |-> "PrepareErr", raised |-> "PrepareErr", stmts |-> <<>>,
      found |-> FALSE, opened |-> 0, closed |-> 0]}
    \cup {[e |-> e, err |-> "QueryErr", raised |-> "QueryErr",
           stmts |-> <<Stmt("SELECT", id, FALSE)>>,
           found |-> FALSE, opened |-> 1, closed |-> 1]}
    \cup (IF id \in DOMAIN tbl
          THEN {[e |-> o.e, err |-> o.err, raised |-> o.err,
                 stmts |-> <<Stmt("SELECT", id, TRUE)>>,
                 found |-> TRUE, opened |-> 1, closed |-> 1] :
                    o \in LoadFromRow(e, ResultRow(tbl, id))}
          ELSE {[e |-> e, err |-> "NoRows", raised |-> ErrNil,
                 stmts |-> <<Stmt("SELECT", id, TRUE)>>,
                 found |-> FALSE, opened |-> 1, closed |-> 1]})

\* LoadByID(ti, id) against the stored rows tbl: the outcomes
\* [e, err, raised, stmts, found, opened, closed].
LoadByID(e, id, tbl) ==
    {[e |-> e, err |-> "PrepareErr", raised |-> "PrepareErr", stmts |-> <<>>,
      found |-> FALSE, opened |-> 0, closed |-> 0]}
    \cup {[e |-> e, err |-> "QueryErr", raised |-> "QueryErr",
           stmts |-> <<Stmt("SELECT", id, FALSE)>>,
           found |-> FALSE, opened |-> 1, closed |-> 1]}
    \cup (IF id \in DOMAIN tbl
          THEN {[e |-> o.e, err |-> o.err, raised |-> o.err,
                 stmts |-> <<Stmt("SELECT", id, TRUE)>>,
                 found |-> TRUE, opened |-> 1, closed |-> 1] :
                    o \in LoadFromRow(e, ResultRow(tbl, id))}
          ELSE {[e |-> e, err |-> ErrNil, raised |-> ErrNil,
                 stmts |-> <<Stmt("SELECT", id, TRUE)>>,
                 found |-> FALSE, opened |-> 1, closed |-> 1]})

\* ------------------------------------------------------------- Save
\* db.Exec of a write statement on the stored rows: [tbl, nextId, lastId].
\* An INSERT stores its row under the next auto-increment key; an UPDATE
\* replaces the row its last parameter names, if there is one.
ExecWrite(q, params, tbl, nid) ==
    IF q.kind = "INSERT"
    THEN [tbl |-> Put(tbl, nid, BindRow(q.cols, params)),
          nextId |-> nid + 1, lastId |-> nid]
    ELSE LET key == params[Len(params)]
         IN  [tbl |-> IF key \in DOMAIN tbl
                      THEN Put(tbl, key, BindRow(q.cols, params))
                      ELSE tbl,
              nextId |-> nid, lastId |-> 0]

\* The key a write statement is bound to (an INSERT has none).
StmtKey(q, params) == IF q.kind = "INSERT" THEN 0 ELSE params[Len(params)]

\* t.executeSaveUpdateQuery(query, params): the outcomes
\* [id, err, tbl, nextId, stmts].  Exec may fail (nothing is written; an
\* INSERT fails when the store has no key left) and LastInsertId may
\* fail after the write.
executeSaveUpdateQuery(q, params, tbl, nid) ==
    LET key == StmtKey(q, params)
        res == ExecWrite(q, params, tbl, nid)
    IN  {[id |-> 0, err |-> "ExecErr", tbl |-> tbl, nextId |-> nid,
          stmts |-> <<Stmt(q.kind, key, FALSE)>>]}
        \cup (IF q.kind = "INSERT" /\ nid > MaxKey
              THEN {}
              ELSE {[id |-> 0, err |-> "LastInsertIdErr", tbl |-> res.tbl,
                     nextId |-> res.nextId, stmts |-> <<Stmt(q.kind, key, TRUE)>>]}
                   \cup {[id |-> res.lastId, err |-> ErrNil, tbl |-> res.tbl,
                          nextId |-> res.nextId, stmts |-> <<Stmt(q.kind, key, TRUE)>>]})

\* A Save whose guard forgets the persisted entities.
SaveRefusedNewOnly(e) == e.isReadOnly /\ e.isNew

\* Save's guard: a read-only entity is refused before any connector call.
SaveRefused(e) == e.isReadOnly

\* A save that binds the values of all the mapped fields, primary key
\* included, to the insert of the non-key columns.
saveWriteAllFields(e, tbl, nid) ==
    executeSaveUpdateQuery(genSaveQuery,
        <<GetPrimaryKeyValue(e)>> \o getFieldsValueNoPrimary(e), tbl, nid)

\* save(ti) up to the write: the insert of the non-key values.
saveWrite(e, tbl, nid) ==
    executeSaveUpdateQuery(genSaveQuery, getFieldsValueNoPrimary(e), tbl, nid)

\* save() reloading by the key the entity held before the INSERT.
saveReloadIdStale(e, w) == GetPrimaryKeyValue(e)

\* save(ti): the id it reloads is the one the insert returned.
saveReloadId(e, w) == w.id

\* save(ti) after the reload o: isNew is cleared only when it succeeded.
saveFinish(o) == IF o.err # ErrNil THEN o ELSE [o EXCEPT !.e = SetIsNew(o.e, FALSE)]

\* An update that sends save's insert instead of the keyed update.
updateWriteAsInsert(e, tbl, nid) ==
    executeSaveUpdateQuery(genSaveQuery, getFieldsValueNoPrimary(e), tbl, nid)

\* An update that inserts the entity when no row has its key.
updateWriteUpsert(e, tbl, nid) ==
    IF GetPrimaryKeyValue(e) \in DOMAIN tbl
    THEN executeSaveUpdateQuery(genUpdateQuery,
            Append(getFieldsValueNoPrimary(e), GetPrimaryKeyValue(e)), tbl, nid)
    ELSE executeSaveUpdateQuery(genSaveQuery, getFieldsValueNoPrimary(e), tbl, nid)

\* update(ti) up to the write: the update of the non-key values, keyed
\* by the entity's primary-key value.
updateWrite(e, tbl, nid) ==
    executeSaveUpdateQuery(genUpdateQuery,
        Append(getFieldsValueNoPrimary(e), GetPrimaryKeyValue(e)), tbl, nid)

\* update(ti): the id it reloads is the entity's primary-key value.
updateReloadId(e, w) == GetPrimaryKeyValue(e)

\* update() marking the entity new again when its reload failed.
updateFinishMarksNew(o) == IF o.err # ErrNil THEN [o EXCEPT !.e = SetIsNew(o.e, TRUE)] ELSE o

\* update(ti) after the reload o.
updateFinish(o) == o

\* ----------------------------------------------------------- Delete
\* Delete(ti) on the stored rows: the outcomes
\* [n, err, raised, tbl, stmts, opened, closed].
Delete(e, tbl) ==
    LET key == GetPrimaryKeyValue(e)
        hit == IF key \in DOMAIN tbl THEN 1 ELSE 0
        base == [n |-> 0, err |-> ErrNil, raised |-> ErrNil, tbl |-> tbl,
                 stmts |-> <<>>, opened |-> 0, closed |-> 0]
        sent(ok) == <<Stmt(genDeleteQuery.kind, key, ok)>>
    IN  {[base EXCEPT !.err = "PrepareErr", !.raised = "PrepareErr"]}
        \cup {[base EXCEPT !.err = "ExecErr", !.raised = "ExecErr",
                           !.stmts = sent(FALSE), !.opened = 1, !.closed = 1]}
        \cup {[base EXCEPT !.raised = "RowsAffectedErr", !.tbl = Remove(tbl, key),
                           !.stmts = sent(TRUE), !.opened = 1, !.closed = 1]}
        \cup {[base EXCEPT !.n = hit, !.tbl = Remove(tbl, key),
                           !.stmts = sent(TRUE), !.opened = 1, !.closed = 1]}

\* -------------------------------------------------- All and ExecQuery
\* The constructor handed to All and ExecQuery (a NewTableModel): a
\* fresh mutable entity with the connector attached.
ntm == SetSQLConnection(NewTableRecord(TRUE, FALSE), Conn)

\* A constructor that attaches no connector: what NewTableRecord
\* returns, as it is.
ntmNoConn == NewTableRecord(TRUE, FALSE)

\* The entities a caller's constructor may produce.
Constructors == {ntm, ntmNoConn}

\* Query Builder: stage one predicate  col = val.
Where(e, col, val) ==
    [e EXCEPT !.where = Append(@, col), !.params = Append(@, val)]

\* Query Builder: the SELECT rendered from the staged predicates.
BuildQuery(e) == [kind |-> "SELECTWHERE", cols |-> e.where]

\* Query Builder: drop the staged predicates and parameters.
ResetStmt(e) == [e EXCEPT !.where = <<>>, !.params = <<>>]

\* The result rows of a SELECT whose predicates cols[i] = params[i] all
\* hold, in key order.
SelectRows(tbl, cols, params) ==
    LET keys == SelectSeq([k \in Keys |-> k],
                    LAMBDA k : /\ k \in DOMAIN tbl
                               /\ \A i \in 1 .. Len(cols) : tbl[k][cols[i]] = params[i])
    IN  [i \in 1 .. Len(keys) |-> ResultRow(tbl, keys[i])]

\* The loop  for rows.Next() { nti := ntm(); LoadFromRow(rows, nti) ... }
\* over the remaining rows, acc being the entities appended so far and
\* c what the constructor returns: the outcomes [result, err].  A failed
\* row returns nil and the error.  rows.Next() is taken to end the loop
\* only at the end of the rows (the code never reads rows.Err()).
\* done counts the entities appended when the loop was left.

\* The loop with the entity made once, before it: every element of the
\* result is that one entity, holding the row scanned last.
MaterializeShared(rows, acc, c) ==
    IF rows = <<>>
    THEN {[result |-> acc, err |-> ErrNil, done |-> Len(acc)]}
    ELSE {[result |-> <<>>, err |-> "ScanErr", done |-> Len(acc)]}
         \cup {[result |-> [i \in 1 .. Len(acc) + Len(rows) |-> o.e],
                err |-> ErrNil, done |-> Len(acc) + Len(rows)] :
                    o \in {x \in LoadFromRow(c, rows[Len(rows)]) : x.err = ErrNil}}

\* The loop returning, with the error of a failed row, the entities it
\* had appended before that row.
RECURSIVE MaterializeKeepsPartial(_, _, _)
MaterializeKeepsPartial(rows, acc, c) ==
    IF rows = <<>>
    THEN {[result |-> acc, err |-> ErrNil, done |-> Len(acc)]}
    ELSE UNION {IF o.err # ErrNil
                THEN {[result |-> acc, err |-> o.err, done |-> Len(acc)]}
                ELSE MaterializeKeepsPartial(Tail(rows), Append(acc, o.e), c) :
                    o \in LoadFromRow(c, Head(rows))}

RECURSIVE Materialize(_, _, _)
Materialize(rows, acc, c) ==
    IF rows = <<>>
    THEN {[result |-> acc, err |-> ErrNil, done |-> Len(acc)]}
    ELSE UNION {IF o.err # ErrNil
                THEN {[result |-> <<>>, err |-> o.err, done |-> Len(acc)]}
                ELSE Materialize(Tail(rows), Append(acc, o.e), c) :
                    o \in LoadFromRow(c, Head(rows))}

\* All(ntm) on the stored rows: the outcomes [result, err, raised, stmts].
\* The query runs on the connector of the constructor's entity, so the
\* constructor is one that attaches it.
All(tbl) ==
    {[result |-> <<>>, err |-> "QueryErr", raised |-> "QueryErr", done |-> 0,
      stmts |-> <<Stmt("SELECTALL", 0, FALSE)>>]}
    \cup {[result |-> m.result, err |-> m.err, raised |-> m.err, done |-> m.done,
           stmts |-> <<Stmt("SELECTALL", 0, TRUE)>>] :
            m \in Materialize(SelectRows(tbl, <<>>, <<>>), <<>>, ntm)}

\* ExecQuery closing its statement in its last lines, not by defer: the
\* returns after a failed query or a failed row leave it open.
ExecQueryCloseAtEnd(e, tbl, c) ==
    LET q == BuildQuery(e)
        base == [e |-> e, result |-> <<>>, err |-> ErrNil, raised |-> ErrNil,
                 done |-> 0, stmts |-> <<>>, opened |-> 0, closed |-> 0]
    IN  {[base EXCEPT !.err = "PrepareErr", !.raised = "PrepareErr"]}
        \cup {[base EXCEPT !.err = "QueryErr", !.raised = "QueryErr",
                           !.stmts = <<Stmt(q.kind, 0, FALSE)>>,
                           !.opened = 1, !.closed = 0]}
        \cup {[base EXCEPT !.e = IF m.err = ErrNil THEN ResetStmt(e) ELSE e,
                           !.result = m.result, !.err = m.err, !.raised = m.err,
                           !.done = m.done,
                           !.stmts = <<Stmt(q.kind, 0, TRUE)>>,
                           !.opened = 1,
                           !.closed = IF m.err = ErrNil THEN 1 ELSE 0] :
                m \in Materialize(SelectRows(tbl, q.cols, e.params), <<>>, c)}

\* ExecQuery(ti, ntm) on the stored rows, c being what ntm returns: the
\* outcomes [e, result, err, raised, stmts, opened, closed].  The
\* builder is reset on the path that reaches the end of the function.
ExecQuery(e, tbl, c) ==
    LET q == BuildQuery(e)
        base == [e |-> e, result |-> <<>>, err |-> ErrNil, raised |-> ErrNil,
                 done |-> 0, stmts |-> <<>>, opened |-> 0, closed |-> 0]
    IN  {[base EXCEPT !.err = "PrepareErr", !.raised = "PrepareErr"]}
        \cup {[base EXCEPT !.err = "QueryErr", !.raised = "QueryErr",
                           !.stmts = <<Stmt(q.kind, 0, FALSE)>>,
                           !.opened = 1, !.closed = 1]}
        \cup {[base EXCEPT !.e = IF m.err = ErrNil THEN ResetStmt(e) ELSE e,
                           !.result = m.result, !.err = m.err, !.raised = m.err,
                           !.done = m.done,
                           !.stmts = <<Stmt(q.kind, 0, TRUE)>>,
                           !.opened = 1, !.closed = 1] :
                m \in Materialize(SelectRows(tbl, q.cols, e.params), <<>>, c)}

\* ------------------------------------------------------------ actions
Init ==
    /\ table = <<>>
    /\ nextId = 1
    /\ \E ro \in BOOLEAN : u = NewTableRecord(TRUE, ro)
    /\ pc = "idle"
    /\ reloadId = 0
    /\ inserted = FALSE
    /\ last = Blank("Init")
    /\ prev = NoPrev

\* A call on an entity whose connector is nil panics in its first
\* connector call: there is no state after it, so calls need a connector.
Callable == pc = "idle" /\ u.db # NoConn

\* The caller attaches the connector: t.SetSQLConnection(db).
CallSetSQLConnection ==
    /\ pc = "idle"
    /\ u.db = NoConn
    /\ u' = SetSQLConnection(u, Conn)
    /\ last' = Blank("SetSQLConnection")
    /\ prev' = NoPrev
    /\ UNCHANGED <<table, nextId, pc, reloadId, inserted>>

\* The caller sets the new flag through the exported setter.
CallSetIsNew ==
    /\ pc = "idle"
    /\ \E new \in BOOLEAN : u' = SetIsNew(u, new)
    /\ last' = Blank("SetIsNew")
    /\ prev' = NoPrev
    /\ UNCHANGED <<table, nextId, pc, reloadId, inserted>>

\* The caller assigns a non-key field of the entity (u.Name = ...).
SetField ==
    /\ pc = "idle"
    /\ \E f \in {"name"}, v \in Vals :
        /\ v # u[f]
        /\ u' = [u EXCEPT ![f] = v]
    /\ last' = Blank("SetField")
    /\ prev' = NoPrev
    /\ UNCHANGED <<table, nextId, pc, reloadId, inserted>>

CallLoadByID ==
    /\ Callable
    /\ \E id \in 0 .. MaxKey : \E o \in LoadByID(u, id, table) :
        /\ u' = o.e
        /\ last' = [Blank("LoadByID") EXCEPT
                        !.err = o.err, !.raised = o.raised, !.stmts = o.stmts,
                        !.arg = id, !.found = o.found,
                        !.opened = o.opened, !.closed = o.closed]
        /\ inserted' = (inserted \/ (o.found /\ o.err = ErrNil))
    /\ prev' = Trim(last)
    /\ UNCHANGED <<table, nextId, pc, reloadId>>

\* Save(ti), from the call to the end of its write statement.  A refused
\* or failed Save returns here; otherwise the caller is left inside
\* save() or update(), about to reload.
CallSave ==
    /\ pc = "idle"
    /\ prev' = Trim(last)
    /\ IF SaveRefused(u)
       THEN /\ last' = [Blank("Save") EXCEPT !.err = ErrReadOnly, !.pre = Pre(u)]
            /\ UNCHANGED <<table, nextId, u, pc, reloadId, inserted>>
       ELSE /\ u.db # NoConn
            /\ \E w \in (IF u.isNew THEN saveWrite(u, table, nextId)
                                    ELSE updateWrite(u, table, nextId)) :
                /\ table' = w.tbl
                /\ nextId' = w.nextId
                /\ inserted' = (inserted \/ (u.isNew /\ w.stmts[1].ok))
                /\ last' = [Blank("Save") EXCEPT
                                !.err = w.err, !.raised = w.err,
                                !.stmts = w.stmts, !.pre = Pre(u)]
                /\ IF w.err # ErrNil
                   THEN UNCHANGED <<pc, reloadId>>
                   ELSE /\ pc' = IF u.isNew THEN "save" ELSE "update"
                        /\ reloadId' = IF u.isNew THEN saveReloadId(u, w)
                                                  ELSE updateReloadId(u, w)
            /\ UNCHANGED u

\* Save(ti), the rest: the reload by LoadByID and the return.
SaveReload ==
    /\ pc \in {"save", "update"}
    /\ \E o \in LoadByID(u, reloadId, table) :
        LET f == IF pc = "save" THEN saveFinish(o) ELSE updateFinish(o)
        IN  /\ u' = f.e
            /\ inserted' = (inserted \/ (f.found /\ f.err = ErrNil))
            /\ last' = [last EXCEPT
                            !.err = f.err, !.raised = f.raised,
                            !.stmts = last.stmts \o f.stmts, !.found = f.found,
                            !.opened = f.opened, !.closed = f.closed]
    /\ pc' = "idle"
    /\ reloadId' = 0
    /\ UNCHANGED <<table, nextId, prev>>

CallDelete ==
    /\ Callable
    /\ \E o \in Delete(u, table) :
        /\ table' = o.tbl
        /\ last' = [Blank("Delete") EXCEPT
                        !.err = o.err, !.raised = o.raised, !.stmts = o.stmts,
                        !.n = o.n, !.pre = Pre(u),
                        !.opened = o.opened, !.closed = o.closed]
    /\ prev' = Trim(last)
    /\ UNCHANGED <<nextId, u, pc, reloadId, inserted>>

\* The caller stages a predicate on the entity's Query Builder.
CallWhere ==
    /\ pc = "idle"
    /\ Len(u.where) < MaxClauses
    /\ \E i \in 1 .. Len(FieldsNoPrimary), v \in Vals :
        u' = Where(u, FieldsNoPrimary[i], v)
    /\ last' = Blank("Where")
    /\ prev' = NoPrev
    /\ UNCHANGED <<table, nextId, pc, reloadId, inserted>>

CallExecQuery ==
    /\ Callable
    /\ \E c \in Constructors : \E o \in ExecQuery(u, table, c) :
        /\ u' = o.e
        /\ last' = [Blank("ExecQuery") EXCEPT
                        !.err = o.err, !.raised = o.raised, !.stmts = o.stmts,
                        !.result = o.result, !.n = o.done,
                        !.opened = o.opened, !.closed = o.closed]
    /\ prev' = NoPrev
    /\ UNCHANGED <<table, nextId, pc, reloadId, inserted>>

\* All(ntm): it works on entities of its own, made by the constructor.
CallAll ==
    /\ pc = "idle"
    /\ \E o \in All(table) :
        last' = [Blank("All") EXCEPT
                    !.err = o.err, !.raised = o.raised, !.stmts = o.stmts,
                    !.result = o.result, !.n = o.done]
    /\ prev' = NoPrev
    /\ UNCHANGED <<table, nextId, u, pc, reloadId, inserted>>

\* ------------------------------------------------------ other writers
\* What another client's statement leaves in the history: inside a Save
\* it marks the Save as interleaved, between calls it is the last step.
OtherHistory ==
    IF pc = "idle"
    THEN last' = Blank("Other") /\ prev' = NoPrev
    ELSE last' = [last EXCEPT !.other = TRUE] /\ UNCHANGED prev

OtherInsert ==
    /\ nextId <= MaxKey
    /\ \E n \in Vals :
        table' = Put(table, nextId, [name |-> n])
    /\ nextId' = nextId + 1
    /\ OtherHistory
    /\ UNCHANGED <<u, pc, reloadId, inserted>>

OtherUpdate ==
    /\ \E k \in DOMAIN table, n \in Vals :
        /\ table[k] # [name |-> n]
        /\ table' = Put(table, k, [name |-> n])
    /\ OtherHistory
    /\ UNCHANGED <<nextId, u, pc, reloadId, inserted>>

OtherDelete ==
    /\ \E k \in DOMAIN table : table' = Remove(table, k)
    /\ OtherHistory
    /\ UNCHANGED <<nextId, u, pc, reloadId, inserted>>

\* ------------------------------------------------------------- claims
\* The statement the last call sent first ran on the connector.
FirstStmtRan(l) == l.stmts # <<>> /\ l.stmts[1].ok

\* C1: Save on a read-only entity, new or persisted, returns the
\* read-only error, sends no statement to the connector and leaves the
\* stored rows and the entity (fields, isNew, everything else) as they were.
C1_ReadOnlySaveRefused ==
    [][(pc = "idle" /\ u.isReadOnly /\ last'.op = "Save") =>
        /\ last'.err = ErrReadOnly
        /\ last'.stmts = <<>>
        /\ pc' = "idle"
        /\ table' = table
        /\ nextId' = nextId
        /\ u' = u]_vars

\* A persisted read-only entity whose row is stored was refused by Save.
C1_Witness ==
    /\ last.op = "Save" /\ last.err = ErrReadOnly
    /\ u.isReadOnly /\ ~u.isNew /\ u.id \in DOMAIN table

\* C2: when Save of a new mutable entity returns no error, the entity
\* has isNew = false and a non-zero primary key, whatever the connector
\* answered to the insert and to the reload.
C2_SavedNewHasKey ==
    (pc = "idle" /\ last.op = "Save" /\ last.pre.isNew /\ last.err = ErrNil)
        => (~u.isNew /\ GetPrimaryKeyValue(u) # 0)

\* C3: between calls, isNew is true exactly when no INSERT for the
\* entity has ever succeeded (an entity loaded from a stored row counts
\* as inserted).
C3_IsNewIffNeverInserted ==
    pc = "idle" => (u.isNew <=> ~inserted)

\* C4: a successful Save of a new mutable entity followed at once by
\* LoadByID with the entity's primary-key value, no other client writing
\* in between, leaves every non-key field with the value it had before Save.
C4_RoundTrip ==
    [][(/\ pc = "idle"
        /\ last'.op = "LoadByID"
        /\ prev'.op = "Save"
        /\ last'.arg = GetPrimaryKeyValue(u)) =>
            \A i \in 1 .. Len(FieldsNoPrimary) :
                u'[FieldsNoPrimary[i]] = prev'[FieldsNoPrimary[i]]]_vars

\* A saved non-zero name was read back from the stored row by LoadByID.
C4_Witness ==
    /\ prev.op = "Save" /\ prev.name # 0
    /\ last.op = "LoadByID" /\ last.found /\ last.err = ErrNil
    /\ last.arg = GetPrimaryKeyValue(u) /\ u.name = prev.name

C6_LoadAfterDeleteFails ==
    (last.op = "LoadByID" /\ prev.op = "Delete" /\ last.arg = prev.key)
        => ~(last.err = ErrNil /\ GetPrimaryKeyValue(u) = prev.key /\ ~u.isNew)

\* C7: a call in which a connector call failed returns that error.
C7_ErrorsPropagate ==
    (pc = "idle" /\ last.raised # ErrNil) => last.err = last.raised

\* C8: when ExecQuery has returned, with or without an error, the
\* entity's staged predicates and bound parameters are empty.
C8_BuilderClearedAfterExecQuery ==
    last.op = "ExecQuery" => (u.where = <<>> /\ u.params = <<>>)

\* C9: no Save or Delete called on a read-only entity, new or persisted,
\* writes, modifies or removes a stored row.
C9_ReadOnlyNeverWrites ==
    [][(pc = "idle" /\ u.isReadOnly /\ last'.op \in {"Save", "Delete"})
        => table' = table]_vars

\* C10 as stated: LoadByID whose SELECT returns a row overwrites every
\* mapped field with the row's values and clears isNew; LoadByID whose
\* SELECT returns no row returns nil and leaves the entity as it was.
C10_LoadByIDAsStated ==
    [][(pc = "idle" /\ last'.op = "LoadByID" /\ FirstStmtRan(last')) =>
        /\ last'.found <=> last'.arg \in DOMAIN table
        /\ last'.found =>
            /\ Fields(u') = ResultRow(table, last'.arg)
            /\ ~u'.isNew
        /\ ~last'.found => (last'.err = ErrNil /\ u' = u)]_vars

\* C10 as amended: LoadByID whose SELECT returns a row that is bound
\* without error overwrites every mapped field with the row's values,
\* clears isNew and changes nothing else; LoadByID whose SELECT returns
\* no row returns nil and leaves the entity as it was.
C10_LoadByID ==
    [][(pc = "idle" /\ last'.op = "LoadByID" /\ FirstStmtRan(last')) =>
        /\ last'.found <=> last'.arg \in DOMAIN table
        /\ (last'.found /\ last'.err = ErrNil) =>
            /\ Fields(u') = ResultRow(table, last'.arg)
            /\ ~u'.isNew
            /\ u' = [u EXCEPT !.id = u'.id, !.name = u'.name, !.isNew = FALSE]
        /\ ~last'.found => (last'.err = ErrNil /\ u' = u)
        /\ table' = table]_vars

\* LoadByID bound a stored row into an entity that held other values.
C10_Witness ==
    /\ last.op = "LoadByID" /\ last.found /\ last.err = ErrNil
    /\ last.arg = 2 /\ u.id = 2 /\ u.name = 1 /\ ~u.isNew /\ u.isReadOnly

C12_DeleteCountsAndKeepsEntity ==
    [][(pc = "idle" /\ last'.op = "Delete") =>
          /\ u' = u
          /\ Len(last'.stmts) <= 1
          /\ \A i \in 1 .. Len(last'.stmts) :
                /\ last'.stmts[i].kind = "DELETE"
                /\ last'.stmts[i].key = GetPrimaryKeyValue(u)
          /\ last'.n = Cardinality(DOMAIN table) - Cardinality(DOMAIN table')]_vars

\* C14: no call of Delete, LoadByID or ExecQuery returns with a prepared
\* statement still open: what Prepare opened has been closed, on the
\* successful return and on every failing one.
C14_StatementsClosed ==
    (pc = "idle" /\ last.op \in {"Delete", "LoadByID", "ExecQuery"}) =>
        /\ last.closed = last.opened
        /\ last.opened = (IF last.raised = "PrepareErr" THEN 0 ELSE 1)

\* ExecQuery prepared its statement, bound a row, failed on the next one
\* and returned with the statement closed.
C14_Witness ==
    /\ pc = "idle" /\ last.op = "ExecQuery"
    /\ last.err = "ScanErr" /\ last.n > 0
    /\ last.opened = 1 /\ last.closed = 1

\* C15: no step of Save, LoadByID (and the LoadFromRow inside it),
\* Delete, All, ExecQuery, SetIsNew or SetSQLConnection changes the
\* entity's isReadOnly: it stays what NewTableRecord was given.
C15_ReadOnlyFlagFixed ==
    [][u'.isReadOnly = u.isReadOnly]_vars

\* A read-only entity that has been loaded from a stored row (its new
\* flag cleared by LoadFromRow) is still read-only.
C15_Witness ==
    /\ u.isReadOnly /\ ~u.isNew
    /\ last.op = "LoadByID" /\ last.found /\ last.err = ErrNil

C17_ReloadReadsCurrentRow ==
    [][(pc # "idle" /\ pc' = "idle") =>
          /\ (last'.err = ErrNil /\ reloadId \in DOMAIN table) =>
                Fields(u') = ResultRow(table, reloadId)
          /\ (reloadId \notin DOMAIN table /\ last'.raised = ErrNil) =>
                /\ last'.err = ErrNil
                /\ Fields(u') = Fields(u)]_vars

\* Another client's statement ran between the write and the reload of a
\* Save that returned nil, and the entity holds a value that is not the
\* one Save wrote.
C17_Witness ==
    /\ pc = "idle" /\ last.op = "Save" /\ last.err = ErrNil
    /\ last.other /\ last.found
    /\ u.name # last.pre.name

\* C13: when binding a row fails in All or ExecQuery, the call returns
\* the error and no collection, whatever it had bound before that row.
C13_NoPartialResult ==
    (last.op \in {"All", "ExecQuery"} /\ last.raised = "ScanErr") =>
        /\ last.err = "ScanErr"
        /\ last.result = <<>>

\* The scan failed on a row after another had been bound and appended.
C13_Witness ==
    /\ last.op \in {"All", "ExecQuery"}
    /\ last.raised = "ScanErr" /\ last.err = "ScanErr"
    /\ last.n > 0
    /\ last.result = <<>>

\* C18: every entity in the collection All or ExecQuery returned has its
\* new flag cleared and holds the connector, whatever the constructor
\* had put in its connector reference.
C18_ResultsHoldConnector ==
    last.op \in {"All", "ExecQuery"} =>
        \A i \in 1 .. Len(last.result) :
            /\ ~last.result[i].isNew
            /\ last.result[i].db = Conn

\* C19: no step of Save, LoadByID (LoadFromRow inside it), Delete, All
\* or ExecQuery, and no statement of another client, turns the entity's
\* new flag from false to true; only the caller's own SetIsNew can.
C19_IsNewNeverReturns ==
    [][(last'.op # "SetIsNew" /\ ~u.isNew) => ~u'.isNew]_vars

\* A persisted entity whose row was just deleted went through a Save
\* that failed, and is still marked persisted.
C19_Witness ==
    /\ pc = "idle" /\ last.op = "Save" /\ prev.op = "Delete"
    /\ ~last.pre.isNew /\ prev.key = last.pre.id
    /\ last.err \notin {ErrNil, ErrReadOnly}
    /\ ~u.isNew

Next ==
    \/ CallSetSQLConnection
    \/ CallSetIsNew
    \/ SetField
    \/ CallLoadByID
    \/ CallSave
    \/ SaveReload
    \/ CallDelete
    \/ CallWhere
    \/ CallExecQuery
    \/ CallAll
    \/ OtherInsert
    \/ OtherUpdate
    \/ OtherDelete

Spec == Init /\ [][Next]_vars

\* The record lifecycle alone: Save, LoadByID and Delete on the entity,
\* with the other clients of the store.
NextRecord ==
    \/ CallSetSQLConnection
    \/ SetField
    \/ CallLoadByID
    \/ CallSave
    \/ SaveReload
    \/ CallDelete
    \/ OtherInsert
    \/ OtherUpdate
    \/ OtherDelete

SpecRecord == Init /\ [][NextRecord]_vars

\* The collection queries alone: the Query Builder, ExecQuery and All,
\* with the other clients of the store.
NextQuery ==
    \/ CallSetSQLConnection
    \/ CallWhere
    \/ CallExecQuery
    \/ CallAll
    \/ OtherInsert
    \/ OtherUpdate
    \/ OtherDelete

SpecQuery == Init /\ [][NextQuery]_vars

\* The calls that prepare a statement of their own (ExecQuery with no
\* predicate staged), and the other writers that fill the table.
NextStatement ==
    \/ CallSetSQLConnection
    \/ CallLoadByID
    \/ CallDelete
    \/ CallExecQuery
    \/ OtherInsert
    \/ OtherUpdate
    \/ OtherDelete

SpecStatement == Init /\ [][NextStatement]_vars

\* Every operation of the package on one entity, ExecQuery with no
\* predicate staged.
NextEntity ==
    \/ CallSetSQLConnection
    \/ CallSetIsNew
    \/ CallLoadByID
    \/ CallSave
    \/ SaveReload
    \/ CallDelete
    \/ CallExecQuery
    \/ CallAll
    \/ OtherInsert
    \/ OtherUpdate
    \/ OtherDelete

SpecEntity == Init /\ [][NextEntity]_vars

====
